---- MODULE Spec2Model ----
(***************************************************************************)
(* Model of reverse_proxy.py: the selector event loop of ReverseProxy.run,  *)
(* accept_connection, the two relay handlers, close_connection and          *)
(* safe_send.                                                               *)
(*                                                                          *)
(* Sockets are numbered: 0 is the listening socket (ipv6side), and the      *)
(* p-th accepted connection owns the client socket 2p-1 and the upstream    *)
(* ("server") socket 2p.  Bytes are their integer values.                   *)
(***************************************************************************)
EXTENDS Integers, Sequences, FiniteSets, TLC

\* ---------------------------------------------------------------- bounds
\* connections that reach the listener in one run
MaxPairs == 1
\* ready keys one select() call may report
MaxBatch == 2
\* non-empty recv() results in one run
MaxReads == 2
\* bytes of a chunk in the runs that rewrite one chunk
MaxLen == 9

\* ------------------------------------------------------- bytes and text
LBRACK == 91
RBRACK == 93
COLON == 58
\* f'{self.port}' for the target port 7
PortText == <<55>>
\* f'127.0.0.1:{self.port}'
Replacement == <<49, 50, 55, 46, 48, 46, 48, 46, 49, 58>> \o PortText

\* payloads a client may send: "a[b]:7", "[a"
ClientChunks == { <<97, 91, 98, 93, 58, 55>>, <<91, 97>> }
\* payloads the upstream may send: "[]:7"
ServerChunks == { <<91, 93, 58, 55>> }

Min(S) == CHOOSE x \in S : \A y \in S : x <= y

\* bytes.decode('ISO-8859-1', 'ignore'): byte b is code point b, nothing is dropped
Latin1Decode(bytes) == [i \in 1..Len(bytes) |-> bytes[i]]
\* str.encode('ISO-8859-1'): code point c <= 255 is byte c
Latin1Encode(str) == [i \in 1..Len(str) |-> str[i] % 256]

\* index of the first ']' after position i, 0 when there is none
FirstClose(str, i) ==
    LET js == {j \in (i + 1)..Len(str) : str[j] = RBRACK}
    IN  IF js = {} THEN 0 ELSE Min(js)

\* end index of a match of \[[^]]*]:<port> starting at i, 0 when none
MatchEnd(str, i) ==
    IF str[i] # LBRACK THEN 0
    ELSE LET j == FirstClose(str, i)
             e == j + 1 + Len(PortText)
         IN  IF j # 0 /\ e <= Len(str) /\ str[j + 1] = COLON
                /\ SubSeq(str, j + 2, e) = PortText
             THEN e ELSE 0

\* ip6.search(str_data): <<start, end>> of the leftmost match, <<0, 0>> when none
Search(str) ==
    LET starts == {i \in 1..Len(str) : MatchEnd(str, i) # 0}
    IN  IF starts = {} THEN <<0, 0>>
        ELSE <<Min(starts), MatchEnd(str, Min(starts))>>

\* str.replace(old, new): every non-overlapping occurrence, left to right
RECURSIVE StrReplace(_, _, _)
StrReplace(str, old, new) ==
    IF Len(str) < Len(old) THEN str
    ELSE IF SubSeq(str, 1, Len(old)) = old
         THEN new \o StrReplace(SubSeq(str, Len(old) + 1, Len(str)), old, new)
         ELSE <<str[1]>> \o StrReplace(Tail(str), old, new)

\* lines 113-120 of read_from_client
Rewrite(data) ==
    LET str == Latin1Decode(data)
        m == Search(str)
    IN  IF m[1] = 0 THEN data
        ELSE Latin1Encode(StrReplace(str, SubSeq(str, m[1], m[2]), Replacement))

\* --------------------------------------------------------------- sockets
Listener == 0
\* the runs with a second connection beside the first take one more
MaxClients == MaxPairs + 1
Pairs == 1..MaxClients
Client(p) == 2 * p - 1
Server(p) == 2 * p
Socks == 0..(2 * MaxClients)
PairSocks == Socks \ {Listener}
IsClient(s) == s % 2 = 1
PairOf(s) == (s + 1) \div 2
Peer(s) == IF IsClient(s) THEN s + 1 ELSE s - 1

\* selector key data: the callback and, for a relay handler, its two sockets
NoReg == [h |-> "none", client |-> 0, server |-> 0]
AcceptData == [h |-> "accept_connection", client |-> 0, server |-> 0]
ClientData(p) == [h |-> "read_from_client", client |-> Client(p), server |-> Server(p)]
ServerData(p) == [h |-> "read_from_server", client |-> Client(p), server |-> Server(p)]

\* a safe_send call: spin is the parity of its would-block retries so far
NoCur == [src |-> 0, dst |-> 0, msg |-> <<>>, totalsent |-> 0, spin |-> 0]
Ev(op, sock, res, total, len) ==
    [op |-> op, sock |-> sock, res |-> res, total |-> total, len |-> len]

VARIABLES
    pc,         \* position of the thread in run()
    running,    \* self.running
    addrSet,    \* the addr argument is not None
    portSet,    \* the port argument is not None
    sel,        \* self.sel: "none", "open", "closed"
    reg,        \* the selector's map: socket -> key data
    sockState,  \* socket -> "none" (not created), "open", "closed"
    fdCloses,   \* socket -> times its descriptor was released
    events,     \* keys of the current batch not yet dispatched
    cur,        \* the safe_send call in progress
    nextPair,   \* index of the next connection to accept
    clients,    \* connections the peers make to the listener in this run
    reads,      \* non-empty recv() results so far
    blocked,    \* sockets being written whose send buffer is full
    rdlog,      \* open socket -> chunks recv() returned on it, in order
    wrlog,      \* open socket -> bytes send() accepted on it, in order
    txErr,      \* open sockets a send of whose data hit a socket error; the
                \* logs of such a direction are dropped, it has lost bytes
    teardowns,  \* pair -> close_connection calls
    lastEv      \* the most recent call the thread completed, and its result

vars == <<pc, running, addrSet, portSet, sel, reg, sockState, fdCloses, events, cur,
          nextPair, clients, reads, blocked, rdlog, wrlog, txErr, teardowns, lastEv>>

\* the state after __init__, with n connections to come
Constructed(n) ==
    /\ clients = n
    /\ pc = "start"
    /\ running = TRUE
    /\ addrSet \in BOOLEAN
    /\ portSet \in BOOLEAN
    /\ sel = "none"
    /\ reg = [s \in Socks |-> NoReg]
    /\ sockState = [s \in Socks |-> "none"]
    /\ fdCloses = [s \in Socks |-> 0]
    /\ events = <<>>
    /\ cur = NoCur
    /\ nextPair = 1
    /\ reads = 0
    /\ blocked = {}
    /\ rdlog = [s \in Socks |-> <<>>]
    /\ wrlog = [s \in Socks |-> <<>>]
    /\ txErr = {}
    /\ teardowns = [p \in Pairs |-> 0]
    /\ lastEv = Ev("none", 0, "none", 0, 0)

Init == Constructed(MaxPairs)

\* ------------------------------------------------------ selector, close
Registered(r) == {s \in Socks : r[s].h # "none"}

\* sel.unregister(sock) inside try/except: an absent key is tolerated
UnregisterSkipped(r, s) == r
Unregister(r, s) == [r EXCEPT ![s] = NoReg]

\* sock.close(): releases the descriptor once; closing again does nothing
CloseFdAlways(fc, st, s) == [fc EXCEPT ![s] = @ + 1]
CloseFd(fc, st, s) == IF st[s] = "open" THEN [fc EXCEPT ![s] = @ + 1] ELSE fc
CloseStateAllPairs(st, s) ==
    [x \in Socks |-> IF x # Listener /\ st[x] = "open" THEN "closed" ELSE st[x]]
CloseState(st, s) == IF st[s] = "open" THEN [st EXCEPT ![s] = "closed"] ELSE st

\* close_connection(client, server)
CloseConnection(c, s) ==
    /\ reg' = Unregister(Unregister(reg, c), s)
    /\ sockState' = CloseState(CloseState(sockState, c), s)
    /\ fdCloses' = CloseFd(CloseFd(fdCloses, sockState, c), CloseState(sockState, c), s)
    /\ blocked' = blocked \ {c, s}
    /\ teardowns' = [teardowns EXCEPT ![PairOf(c)] = @ + 1]
    /\ rdlog' = [rdlog EXCEPT ![c] = <<>>, ![s] = <<>>]
    /\ wrlog' = [wrlog EXCEPT ![c] = <<>>, ![s] = <<>>]
    /\ txErr' = txErr \ {c, s}

NextPc(evs) == IF evs = <<>> THEN "poll" ELSE "dispatch"

\* ------------------------------------------------------------- startup
\* run(), lines 240-257: selector, listening socket, bind, listen, register
\* self.addr is (addr, port) when addr is given and None otherwise (line 71);
\* bind(None) and bind((addr, None)) raise TypeError
StartupResults ==
    IF addrSet /\ portSet
    THEN {"ok", "socket_fail", "bind_fail", "listen_fail", "register_fail"}
    ELSE {"socket_fail", "bind_fail"}

\* where run() goes after the startup statements: into the loop, or through the
\* except clause of line 280 to the finally block
StartupNextAlwaysPoll(res) == "poll"
StartupNext(res) == IF res = "ok" THEN "poll" ELSE "finally"

Startup ==
    /\ pc = "start"
    /\ \E res \in StartupResults :
        /\ sel' = "open"
        /\ sockState' = IF res = "socket_fail" THEN sockState
                        ELSE [sockState EXCEPT ![Listener] = "open"]
        /\ reg' = IF res = "ok" THEN [reg EXCEPT ![Listener] = AcceptData] ELSE reg
        /\ pc' = StartupNext(res)
        /\ lastEv' = Ev("startup", Listener, res, 0, 0)
    /\ UNCHANGED <<running, addrSet, portSet, clients, fdCloses, events, cur, nextPair, reads,
                   blocked, rdlog, wrlog, txErr, teardowns>>

\* ------------------------------------------------------------ the loop
\* the positions of the thread at which self.running is read: only the test
\* of `while self.running`, before each select
RunningReadAtEveryKey(at) == at \in {"poll", "dispatch"}
RunningReadAt(at) == at = "poll"

\* `while self.running` is false: fall through to the finally block
LoopExit ==
    /\ RunningReadAt(pc)
    /\ ~running
    /\ pc' = "finally"
    /\ lastEv' = Ev("poll", 0, "exit", 0, 0)
    /\ UNCHANGED <<running, addrSet, portSet, clients, sel, reg, sockState, fdCloses, events, cur,
                   nextPair, reads, blocked, rdlog, wrlog, txErr, teardowns>>

\* the except clause of lines 276-278: print, sleep, next iteration
PollErrorStops(run) == [pc |-> "finally", running |-> FALSE]
PollErrorNext(run) == [pc |-> "poll", running |-> run]

\* self.sel.select raises an Exception
PollFail ==
    /\ pc = "poll"
    /\ running
    /\ lastEv' = Ev("poll", 0, "error", 0, 0)
    /\ pc' = PollErrorNext(running).pc
    /\ running' = PollErrorNext(running).running
    /\ UNCHANGED <<addrSet, portSet, clients, sel, reg, sockState, fdCloses, events,
                   cur, nextPair, reads, blocked, rdlog, wrlog, txErr, teardowns>>

\* KeyboardInterrupt during select: lines 272-275
PollInterrupt ==
    /\ pc = "poll"
    /\ running
    /\ running' = FALSE
    /\ pc' = "finally"
    /\ lastEv' = Ev("poll", 0, "interrupt", 0, 0)
    /\ UNCHANGED <<addrSet, portSet, clients, sel, reg, sockState, fdCloses, events, cur, nextPair,
                   reads, blocked, rdlog, wrlog, txErr, teardowns>>

\* the lists of keys select() may return: distinct registered sockets, any order
Batches(r) ==
    LET R == Registered(r)
        seqs == UNION {[1..n -> R] : n \in 0..MaxBatch}
    IN  {q \in seqs : \A i, j \in 1..Len(q) : i # j => q[i] # q[j]}

Key(r, s) == [fileobj |-> s, data |-> r[s]]

\* events = self.sel.select(timeout=1.0)
PollReady ==
    /\ pc = "poll"
    /\ running
    /\ \E q \in Batches(reg) :
        /\ events' = [i \in 1..Len(q) |-> Key(reg, q[i])]
        /\ pc' = NextPc(q)
        /\ lastEv' = Ev("poll", 0, "ready", Len(q), 0)
    /\ UNCHANGED <<running, addrSet, portSet, clients, sel, reg, sockState, fdCloses, cur, nextPair,
                   reads, blocked, rdlog, wrlog, txErr, teardowns>>

\* ------------------------------------------------------ accept_connection
AcceptResults ==
    {"accept_fail"} \cup
    (IF nextPair <= clients
     THEN {"connect_fail", "reg_client_fail", "reg_server_fail", "ok"} ELSE {})

\* sockets the call has opened when it ends with res; the except clause closes none
AcceptSockState(st, p, res) ==
    IF res = "accept_fail" THEN st
    ELSE IF res = "connect_fail" THEN [st EXCEPT ![Client(p)] = "open"]
    ELSE [st EXCEPT ![Client(p)] = "open", ![Server(p)] = "open"]

\* registrations made before the call ends with res; the except clause undoes none
AcceptReg(r, p, res) ==
    IF res = "reg_server_fail" THEN [r EXCEPT ![Client(p)] = ClientData(p)]
    ELSE IF res = "ok"
         THEN [r EXCEPT ![Client(p)] = ClientData(p), ![Server(p)] = ServerData(p)]
         ELSE r

DispatchAccept ==
    /\ pc = "dispatch"
    /\ events # <<>>
    /\ Head(events).data.h = "accept_connection"
    /\ \E res \in AcceptResults :
        /\ sockState' = AcceptSockState(sockState, nextPair, res)
        /\ reg' = AcceptReg(reg, nextPair, res)
        /\ nextPair' = IF res = "accept_fail" THEN nextPair ELSE nextPair + 1
        /\ lastEv' = Ev("accept",
                        IF res = "accept_fail" THEN Listener ELSE Client(nextPair),
                        res, 0, 0)
    /\ events' = Tail(events)
    /\ pc' = NextPc(Tail(events))
    /\ UNCHANGED <<running, addrSet, portSet, clients, sel, fdCloses, cur, reads, blocked, rdlog,
                   wrlog, txErr, teardowns>>

\* ------------------------------------------------------- relay handlers
\* what sock.recv(4096) may do: a closed socket object raises OSError (EBADF)
RecvResults(s) ==
    IF sockState[s] # "open" THEN {"ebadf"}
    ELSE {"eof", "reset", "error"} \cup (IF reads < MaxReads THEN {"data"} ELSE {})

\* the branch read_from_client takes on a recv result
ClientRecvBranch(res) == IF res = "data" THEN "forward" ELSE "teardown"

\* the branch read_from_server takes on a recv result
ServerRecvBranchKeepOnEof(res) ==
    IF res = "data" THEN "forward" ELSE IF res = "eof" THEN "return" ELSE "teardown"
ServerRecvBranch(res) == IF res = "data" THEN "forward" ELSE "teardown"

\* the bytes read_from_client hands to safe_send
ClientForward(data) == Rewrite(data)

\* the bytes read_from_server hands to safe_send
ServerForwardRewritten(data) == Rewrite(data)
ServerForward(data) == data

\* a relay handler up to its call of safe_send; src is the socket it reads,
\* dst the one it sends to, fromClient tells read_from_client from read_from_server
Relay(key, src, dst, fromClient) ==
    /\ \E res \in RecvResults(src) :
        LET branch == IF fromClient THEN ClientRecvBranch(res) ELSE ServerRecvBranch(res)
        IN
        \/ /\ branch = "forward"
           /\ \E data \in (IF fromClient THEN ClientChunks ELSE ServerChunks) :
                LET msg == IF fromClient THEN ClientForward(data) ELSE ServerForward(data)
                IN  /\ rdlog' = IF src \in txErr THEN rdlog
                                ELSE [rdlog EXCEPT ![src] = Append(@, data)]
                    /\ cur' = [src |-> src, dst |-> dst, msg |-> msg,
                               totalsent |-> 0, spin |-> 0]
                    /\ lastEv' = Ev("recv", src, res, 0, Len(msg))
           /\ reads' = reads + 1
           /\ pc' = "send"
           /\ UNCHANGED <<reg, sockState, fdCloses, blocked, teardowns, wrlog, txErr>>
        \/ /\ branch = "teardown"
           /\ CloseConnection(key.data.client, key.data.server)
           /\ lastEv' = Ev("recv", src, res, 0, 0)
           /\ pc' = NextPc(Tail(events))
           /\ UNCHANGED <<cur, reads>>
        \/ /\ branch = "return"
           /\ lastEv' = Ev("recv", src, res, 0, 0)
           /\ pc' = NextPc(Tail(events))
           /\ UNCHANGED <<cur, reads, rdlog, wrlog, txErr, reg, sockState,
                          fdCloses, blocked, teardowns>>
    /\ events' = Tail(events)
    /\ UNCHANGED <<running, addrSet, portSet, clients, sel, nextPair>>

\* read_from_client(client, server)
DispatchClient ==
    /\ pc = "dispatch"
    /\ events # <<>>
    /\ Head(events).data.h = "read_from_client"
    /\ Relay(Head(events), Head(events).data.client, Head(events).data.server, TRUE)

\* read_from_server(client, server)
DispatchServer ==
    /\ pc = "dispatch"
    /\ events # <<>>
    /\ Head(events).data.h = "read_from_server"
    /\ Relay(Head(events), Head(events).data.server, Head(events).data.client, FALSE)

\* ------------------------------------------------------------- safe_send
\* msg[totalsent:]
RemainingFromStart(msg, totalsent) == msg
Remaining(msg, totalsent) == SubSeq(msg, totalsent + 1, Len(msg))

\* what one conn.send(msg[totalsent:]) may do: <<"sent", n>> (n bytes accepted),
\* "wouldblock" (BlockingIOError) or "error" (any other exception)
SendResults(dst, rest) ==
    IF sockState[dst] # "open" THEN {<<"error", 0>>}
    ELSE IF dst \in blocked THEN {<<"wouldblock", 0>>}
    ELSE {<<"sent", n>> : n \in 0..Len(rest)} \cup {<<"error", 0>>}

\* how safe_send ends after an exception inside its outer try: line 52 catches
\* every Exception and line 53 prints it, so the caller sees a normal return
SafeSendEnd(failed) == "returned"

\* the handler after safe_send ends: an exception would reach its except clause
AfterSafeSend(how, src, dst, rd, wr, te) ==
    IF how = "raised"
    THEN IF IsClient(src) THEN CloseConnection(src, dst) ELSE CloseConnection(dst, src)
    ELSE /\ blocked' = blocked \ {dst}
         /\ rdlog' = rd
         /\ wrlog' = wr
         /\ txErr' = te
         /\ UNCHANGED <<reg, sockState, fdCloses, teardowns>>

\* one iteration of the while loop of safe_send, and its return
SendStep ==
    /\ pc = "send"
    /\ LET rest == Remaining(cur.msg, cur.totalsent)
           msg_len == Len(cur.msg)
       IN \E r \in SendResults(cur.dst, rest) :
          LET sent == r[2]
              wr == IF cur.src \in txErr THEN wrlog
                    ELSE [wrlog EXCEPT ![cur.dst] = @ \o SubSeq(rest, 1, sent)]
          IN
            \/ /\ r[1] = "wouldblock"
               /\ cur' = [cur EXCEPT !.spin = 1 - @]
               /\ UNCHANGED <<pc, lastEv, rdlog, wrlog, txErr, reg, sockState,
                              fdCloses, blocked, teardowns>>
            \/ /\ r[1] = "sent" /\ sent > 0
               /\ IF cur.totalsent + sent < msg_len
                  THEN /\ cur' = [cur EXCEPT !.totalsent = @ + sent]
                       /\ wrlog' = wr
                       /\ UNCHANGED <<pc, lastEv, rdlog, txErr, reg, sockState, fdCloses,
                                      blocked, teardowns>>
                  ELSE /\ cur' = NoCur
                       /\ lastEv' = Ev("safe_send", cur.dst, SafeSendEnd(FALSE),
                                       cur.totalsent + sent, msg_len)
                       /\ pc' = NextPc(events)
                       /\ AfterSafeSend(SafeSendEnd(FALSE), cur.src, cur.dst,
                                        rdlog, wr, txErr)
            \/ /\ r[1] = "error" \/ (r[1] = "sent" /\ sent = 0)
               /\ cur' = NoCur
               /\ lastEv' = Ev("safe_send", cur.dst, SafeSendEnd(TRUE),
                               cur.totalsent, msg_len)
               /\ pc' = NextPc(events)
               /\ AfterSafeSend(SafeSendEnd(TRUE), cur.src, cur.dst,
                                [rdlog EXCEPT ![cur.src] = <<>>],
                                [wrlog EXCEPT ![cur.dst] = <<>>],
                                txErr \cup {cur.src})
    /\ UNCHANGED <<running, addrSet, portSet, clients, sel, events, nextPair, reads>>

\* ------------------------------------------------------------- shutdown
\* the finally block of run(), lines 282-290
Finally ==
    /\ pc = "finally"
    /\ sockState' = [s \in Socks |->
                        IF s \in Registered(reg) THEN CloseState(sockState, s)[s]
                        ELSE sockState[s]]
    /\ fdCloses' = [s \in Socks |->
                        IF s \in Registered(reg) THEN CloseFd(fdCloses, sockState, s)[s]
                        ELSE fdCloses[s]]
    /\ reg' = [s \in Socks |-> NoReg]
    /\ sel' = "closed"
    /\ blocked' = {}
    /\ pc' = "done"
    /\ lastEv' = Ev("finally", 0, "closed", 0, 0)
    /\ rdlog' = [s \in Socks |-> <<>>]
    /\ wrlog' = [s \in Socks |-> <<>>]
    /\ txErr' = {}
    /\ UNCHANGED <<running, addrSet, portSet, clients, events, cur, nextPair, reads, teardowns>>

\* ---------------------------------------------------------- environment
\* another thread clears self.running
Stop ==
    /\ running
    /\ pc # "done"
    /\ running' = FALSE
    /\ UNCHANGED <<pc, addrSet, portSet, clients, sel, reg, sockState, fdCloses, events, cur,
                   nextPair, reads, blocked, rdlog, wrlog, txErr, teardowns, lastEv>>

\* the send buffer of the socket being written fills up
Congest ==
    /\ pc = "send"
    /\ sockState[cur.dst] = "open"
    /\ cur.dst \notin blocked
    /\ blocked' = blocked \cup {cur.dst}
    /\ UNCHANGED <<pc, running, addrSet, portSet, clients, sel, reg, sockState, fdCloses, events,
                   cur, nextPair, reads, rdlog, wrlog, txErr, teardowns, lastEv>>

\* the peer drains a full send buffer
Drain ==
    /\ \E s \in blocked : blocked' = blocked \ {s}
    /\ UNCHANGED <<pc, running, addrSet, portSet, clients, sel, reg, sockState, fdCloses, events,
                   cur, nextPair, reads, rdlog, wrlog, txErr, teardowns, lastEv>>

\* the steps of the thread that executes run()
Thread ==
    \/ Startup
    \/ LoopExit
    \/ PollFail
    \/ PollInterrupt
    \/ PollReady
    \/ DispatchAccept
    \/ DispatchClient
    \/ DispatchServer
    \/ SendStep
    \/ Finally

Next ==
    \/ Thread
    \/ Stop
    \/ Congest
    \/ Drain

Spec == Init /\ [][Next]_vars

\* the interpreter keeps scheduling the thread of run()
FairSpec == Init /\ [][Next]_vars /\ WF_vars(Thread)

\* the same program with one connection more, started with addr and port given
FrameInit == Constructed(MaxClients) /\ addrSet /\ portSet
FrameSpec == FrameInit /\ [][Next]_vars

\* ------------------------------------------- the rewrite of a single chunk
\* the bytes of the chunks: "[", "]", ":" and the one digit of the port
Alphabet == {LBRACK, RBRACK, COLON, 55}
\* what client.recv(4096) may return when it returns data
Buffers == UNION {[1..n -> Alphabet] : n \in 1..MaxLen}

\* read_from_client has received the chunk b on the client socket of the first
\* connection (line 110) and is about to rewrite it
Received(b) ==
    /\ clients = MaxPairs
    /\ pc = "dispatch"
    /\ running = TRUE
    /\ addrSet = TRUE
    /\ portSet = TRUE
    /\ sel = "open"
    /\ reg = [s \in Socks |-> IF s = Listener THEN AcceptData
                              ELSE IF s = Client(1) THEN ClientData(1)
                              ELSE IF s = Server(1) THEN ServerData(1)
                              ELSE NoReg]
    /\ sockState = [s \in Socks |->
                        IF s \in {Listener, Client(1), Server(1)} THEN "open" ELSE "none"]
    /\ fdCloses = [s \in Socks |-> 0]
    /\ events = <<>>
    /\ cur = NoCur
    /\ nextPair = 2
    /\ reads = 1
    /\ blocked = {}
    /\ rdlog = [s \in Socks |-> IF s = Client(1) THEN <<b>> ELSE <<>>]
    /\ wrlog = [s \in Socks |-> <<>>]
    /\ txErr = {}
    /\ teardowns = [p \in Pairs |-> 0]
    /\ lastEv = Ev("recv", Client(1), "data", 0, Len(b))

RewriteInit == \E b \in Buffers : Received(b)

\* lines 111-124: the chunk is rewritten and handed to safe_send
RewriteChunk ==
    /\ pc = "dispatch"
    /\ cur = NoCur
    /\ rdlog[Client(1)] # <<>>
    /\ cur' = [src |-> Client(1), dst |-> Server(1),
               msg |-> ClientForward(rdlog[Client(1)][1]),
               totalsent |-> 0, spin |-> 0]
    /\ pc' = "send"
    /\ UNCHANGED <<running, addrSet, portSet, clients, sel, reg, sockState, fdCloses,
                   events, nextPair, reads, blocked, rdlog, wrlog, txErr, teardowns,
                   lastEv>>

RewriteSpec == RewriteInit /\ [][RewriteChunk]_vars

\* =============================================================== claims
Opened(s) == sockState[s] = "open"
Closed(s) == sockState[s] = "closed"
IsRegistered(s) == reg[s].h # "none"
\* both sockets of pair p are closed and absent from the selector's map
TornDown(p) ==
    /\ Closed(Client(p)) /\ Closed(Server(p))
    /\ ~IsRegistered(Client(p)) /\ ~IsRegistered(Server(p))

\* C1: when accept_connection fails (accept, upstream connect or a registration),
\* every socket the call opened is closed and unregistered when it returns.
AcceptFailureLeavesNothing ==
    (lastEv.op = "accept" /\ lastEv.res \notin {"ok", "accept_fail"}) =>
        /\ ~Opened(lastEv.sock) /\ ~Opened(Peer(lastEv.sock))
        /\ ~IsRegistered(lastEv.sock) /\ ~IsRegistered(Peer(lastEv.sock))

\* C2: when a send inside a relay handler fails (an exception, or 0 bytes sent),
\* the pair is torn down (both sockets unregistered and closed) when the handler
\* returns.
SendFailureTearsDown ==
    (lastEv.op = "safe_send" /\ lastEv.total < lastEv.len) =>
        TornDown(PairOf(lastEv.sock))

\* C3: safe_send returns normally only when every byte of the buffer has been
\* accepted by the socket; a failed or partial send is signalled to the caller.
SafeSendReturnsOnlyWhenComplete ==
    (lastEv.op = "safe_send" /\ lastEv.res = "returned") => lastEv.total = lastEv.len

\* the bytes a direction owes its destination: the chunks read from src, in read
\* order, rewritten when src is the client socket
RECURSIVE Owed(_, _)
Owed(src, chunks) ==
    IF chunks = <<>> THEN <<>>
    ELSE (IF IsClient(src) THEN Rewrite(Head(chunks)) ELSE Head(chunks))
         \o Owed(src, Tail(chunks))

\* C4: in a direction without socket error, the bytes the destination socket has
\* accepted are exactly the chunks read from the source, in read order, rewritten
\* on client->upstream; during a send, the accepted bytes followed by the unsent
\* tail of the buffer are.
RelayPreservesBytes ==
    \A src \in PairSocks :
        src \notin txErr =>
            IF pc = "send" /\ cur.src = src
            THEN wrlog[Peer(src)]
                 \o SubSeq(cur.msg, cur.totalsent + 1, Len(cur.msg))
                 = Owed(src, rdlog[src])
            ELSE wrlog[Peer(src)] = Owed(src, rdlog[src])

\* C4 witness: the second chunk of a client is being sent rewritten, part of it
\* accepted, after a send() that would have blocked.
RelayMidSecondChunk ==
    /\ pc = "send"
    /\ IsClient(cur.src)
    /\ cur.src \notin txErr
    /\ Len(rdlog[cur.src]) = 2
    /\ cur.msg # rdlog[cur.src][2]
    /\ cur.totalsent > 0
    /\ cur.spin = 1

\* C5: at every poll boundary each pair has both sockets registered and open, or
\* neither registered and both closed.  A pair is an accepted connection of
\* which a socket has been registered or closed.
PairHalvesTogether ==
    pc = "poll" =>
        \A p \in Pairs :
            (IsRegistered(Client(p)) \/ IsRegistered(Server(p))
             \/ Closed(Client(p)) \/ Closed(Server(p))) =>
                \/ /\ IsRegistered(Client(p)) /\ IsRegistered(Server(p))
                   /\ Opened(Client(p)) /\ Opened(Server(p))
                \/ TornDown(p)

\* C6: no relay handler calls recv on a socket of a pair that has been torn down
\* ("ebadf" is what recv does on a socket object close_connection has closed).
NoReadAfterTeardown ==
    lastEv.op = "recv" => lastEv.res # "ebadf"

\* C7: a second close_connection on the same pair changes neither the selector's
\* map nor any socket's state, releases no descriptor again, and returns to the
\* loop.
CloseConnectionIdempotent ==
    [][\A p \in Pairs :
        (teardowns[p] >= 1 /\ teardowns'[p] > teardowns[p]) =>
            /\ reg' = reg
            /\ sockState' = sockState
            /\ fdCloses' = fdCloses
            /\ pc' \in {"poll", "dispatch"}]_vars

\* C7 witness: close_connection has been called twice on one pair.
ClosedTwice == \E p \in Pairs : teardowns[p] = 2

\* C8: when recv on one side of a pair returns EOF, both sockets of the pair are
\* closed and unregistered by the time the handler returns, hence before the
\* batch ends; for the client side and for the upstream side.
EofClosesBothSides ==
    (lastEv.op = "recv" /\ lastEv.res = "eof") => TornDown(PairOf(lastEv.sock))

\* C8 witness: the upstream socket read EOF while the loop is running.
UpstreamEofSeen ==
    /\ lastEv.op = "recv" /\ lastEv.res = "eof" /\ ~IsClient(lastEv.sock)
    /\ running

\* C9: once the running flag is false, run() eventually returns.
StopLeadsToReturn == (~running) ~> (pc = "done")

\* C10: when run() returns, every socket the core created or accepted is closed
\* and the selector is closed.
AllClosedAtReturn ==
    pc = "done" => /\ \A s \in Socks : ~Opened(s)
                   /\ sel = "closed"

\* C11: safe_send always terminates, also on a socket that stays non-writable: a
\* call in progress either ends or comes to find its socket writable.
SafeSendTerminates == (pc = "send") ~> (pc # "send" \/ cur.dst \notin blocked)

\* C12: a failure of the poll call leaves the running flag, the selector, its
\* map and every socket as they were, and the thread at the top of the loop, where
\* it polls again.
PollFailureKeepsLoop ==
    [][(lastEv' # lastEv /\ lastEv'.op = "poll" /\ lastEv'.res = "error") =>
            /\ running' = running
            /\ reg' = reg
            /\ sockState' = sockState
            /\ sel' = sel
            /\ pc' = "poll"]_vars

\* C12 witness: select() has failed with a connection registered, and the thread
\* is back at the top of the loop with the flag still set.
PollFailedWithPair ==
    /\ lastEv.op = "poll" /\ lastEv.res = "error"
    /\ pc = "poll" /\ running
    /\ IsRegistered(Listener) /\ IsRegistered(Client(1)) /\ IsRegistered(Server(1))

\* C13: when startup fails, the thread goes to the finally block without the
\* listener registered and without a batch; from the finally block it only
\* returns, and at the return no listener is registered.
StartupFailureSkipsLoop ==
    [][/\ (pc = "start" /\ lastEv'.op = "startup" /\ lastEv'.res # "ok") =>
            /\ pc' = "finally"
            /\ reg'[Listener] = NoReg
            /\ events' = <<>>
       /\ (pc \in {"finally", "done"}) => (pc' \in {"finally", "done"} /\ events' = <<>>)
       /\ (pc' = "done") => reg'[Listener] = NoReg]_vars

\* C13 witness: run() has returned after a startup that created the listening
\* socket and then failed; no connection was ever accepted.
StartupFailedAndReturned ==
    /\ pc = "done"
    /\ Opened(Listener)
    /\ nextPair = 1

\* the last chunk recv() returned on socket s
LastRead(s) == rdlog[s][Len(rdlog[s])]
\* the key data accept_connection is to register for socket s
OwnData(s) == IF IsClient(s) THEN ClientData(PairOf(s)) ELSE ServerData(PairOf(s))

\* C14: every registered connection socket, and every key of the batch, carries
\* the handler of its own side with the two sockets of its own pair; what the
\* upstream handler hands to safe_send is the chunk it read, unmodified, for the
\* client socket of the same pair.
UpstreamPassesThrough ==
    /\ \A s \in PairSocks : IsRegistered(s) => reg[s] = OwnData(s)
    /\ \A i \in 1..Len(events) :
            events[i].fileobj # Listener => events[i].data = OwnData(events[i].fileobj)
    /\ (pc = "send" /\ ~IsClient(cur.src)) =>
            /\ cur.dst = Peer(cur.src)
            /\ cur.src \notin txErr => cur.msg = LastRead(cur.src)

\* C14 witness: a chunk from upstream that contains the pattern is being sent to
\* the client, part of it accepted.
UpstreamPatternInFlight ==
    /\ pc = "send"
    /\ ~IsClient(cur.src)
    /\ cur.src \notin txErr
    /\ Search(Latin1Decode(cur.msg))[1] # 0
    /\ cur.totalsent > 0

\* the text after the first match of the pattern in chunk b (b has a match)
AfterFirstMatch(b) == SubSeq(b, Search(Latin1Decode(b))[2] + 1, Len(b))
\* the last n bytes of buf
Suffix(buf, n) == SubSeq(buf, Len(buf) - n + 1, Len(buf))

\* C15: when a client chunk has a further occurrence of the pattern after the
\* first one, the forwarded bytes end with the whole text that followed the first
\* occurrence, unchanged.
LaterOccurrencesIntact ==
    (pc = "send" /\ IsClient(cur.src) /\ cur.src \notin txErr) =>
        LET b == LastRead(cur.src) IN
        (Search(Latin1Decode(b))[1] # 0
         /\ Search(Latin1Decode(AfterFirstMatch(b)))[1] # 0) =>
            /\ Len(cur.msg) >= Len(AfterFirstMatch(b))
            /\ Suffix(cur.msg, Len(AfterFirstMatch(b))) = AfterFirstMatch(b)

\* the reference rewrite: the span of the first match replaced, nothing else
ReferenceRewrite(b) ==
    LET m == Search(Latin1Decode(b))
    IN  IF m[1] = 0 THEN b
        ELSE SubSeq(b, 1, m[1] - 1) \o Replacement \o SubSeq(b, m[2] + 1, Len(b))
\* the change of length the reference rewrite makes
LengthDelta(b) ==
    LET m == Search(Latin1Decode(b))
    IN  IF m[1] = 0 THEN 0 ELSE Len(Replacement) - (m[2] - m[1] + 1)

\* C16: the bytes read_from_client hands to safe_send are the reference rewrite
\* of the chunk it read, and their length is the chunk's plus the length delta of
\* the replacement.
ForwardIsReferenceRewrite ==
    (pc = "send" /\ IsClient(cur.src) /\ cur.src \notin txErr) =>
        /\ cur.msg = ReferenceRewrite(LastRead(cur.src))
        /\ Len(cur.msg) = Len(LastRead(cur.src)) + LengthDelta(LastRead(cur.src))

\* a step in which a relay handler of pair p saw a read error or EOF, a send of
\* its data failed, or close_connection ran on the pair
PairFailure(p) ==
    \/ teardowns'[p] > teardowns[p]
    \/ /\ lastEv' # lastEv
       /\ lastEv'.sock \in {Client(p), Server(p)}
       /\ \/ lastEv'.op = "recv" /\ lastEv'.res # "data"
          \/ lastEv'.op = "safe_send" /\ lastEv'.total < lastEv'.len

\* C17: a step with a failure or teardown on pair p changes, for the listener
\* and for every socket of another pair, neither the registration, the
\* open/closed state, the descriptor, nor the bytes read and written so far; the
\* rest of the batch, the selector and the running flag stay, and the thread stays
\* in the loop.
OtherPairsUntouched ==
    [][\A p \in Pairs :
        PairFailure(p) =>
            /\ \A s \in Socks \ {Client(p), Server(p)} :
                    /\ reg'[s] = reg[s]
                    /\ sockState'[s] = sockState[s]
                    /\ fdCloses'[s] = fdCloses[s]
                    /\ rdlog'[s] = rdlog[s]
                    /\ wrlog'[s] = wrlog[s]
                    /\ (s \in txErr') = (s \in txErr)
            /\ events' = events \/ (events # <<>> /\ events' = Tail(events))
            /\ sel' = sel
            /\ running' = running
            /\ pc' \in {"poll", "dispatch"}]_vars

\* C17 witness: a read on one pair has just failed and torn the pair down while
\* another pair, which has relayed bytes upstream, and the listener are still
\* registered and open.
OtherPairSurvivesFailure ==
    \E p, q \in Pairs :
        /\ p # q
        /\ lastEv.op = "recv" /\ lastEv.res \in {"reset", "error"}
        /\ lastEv.sock \in {Client(p), Server(p)}
        /\ TornDown(p)
        /\ IsRegistered(Client(q)) /\ IsRegistered(Server(q))
        /\ Opened(Client(q)) /\ Opened(Server(q))
        /\ wrlog[Server(q)] # <<>>
        /\ IsRegistered(Listener) /\ Opened(Listener)
        /\ running

\* C18: a stop request that arrives while a batch is being processed changes
\* neither the thread's position, the batch nor the send in progress; a handler
\* position is followed by a handler position or the top of the loop; and the
\* loop is left only with the batch empty and no send in progress.
StopWaitsForBatch ==
    [][/\ (running /\ ~running' /\ pc \in {"dispatch", "send"}) =>
            (pc' = pc /\ events' = events /\ cur' = cur)
       /\ (pc \in {"dispatch", "send"}) => pc' \in {"dispatch", "send", "poll"}
       /\ (pc' = "finally" /\ pc # "finally") => (events = <<>> /\ cur = NoCur)]_vars

\* C18 witness: the flag is false while a handler is inside safe_send, part of
\* its buffer sent, and another key of the batch waits.
StoppedMidBatch ==
    /\ ~running
    /\ pc = "send"
    /\ cur.totalsent > 0
    /\ events # <<>>

\* C19: at every poll call, every socket in the selector's map is open.
RegisteredSocketsOpen ==
    pc = "poll" => \A s \in Registered(reg) : Opened(s)

\* C19 witness: the loop is about to poll after a pair was torn down.
PollAfterTeardown ==
    /\ pc = "poll"
    /\ running
    /\ IsRegistered(Listener)
    /\ \E p \in Pairs : teardowns[p] >= 1 /\ TornDown(p)

====
